---- MODULE Spec2Model ----
(***************************************************************************)
(* The two process-wide profiler handles of the crate, PROFILER            *)
(* (src/src/profiler.rs) and HEAP_PROFILER (src/src/heap_profiler.rs),      *)
(* each a Mutex around one ProfilerState, used by concurrent threads as     *)
(*     HANDLE.lock().unwrap().start(path) / .stop() / .state() / .dump(r)   *)
(* Every step of a method is one action, so that the interleavings that    *)
(* the Mutex allows (and forbids) are the ones the model explores.          *)
(* Two threads issue calls, in any order and with any argument, for ever.   *)
(***************************************************************************)
EXTENDS Integers, Sequences, FiniteSets, TLC

\* ------------------------------------------------------------------------
\* Bounds of the model
\* ------------------------------------------------------------------------

\* the native allocator has this many addresses to hand out
MaxPtrs == 2

\* ------------------------------------------------------------------------
\* Values
\* ------------------------------------------------------------------------

Threads == {"t1", "t2"}

NoThread == "none"

Handles == {"cpu", "heap"}

ProfilerStates == {"NotActive", "Active"}

\* The methods of a handle; dump exists on the heap handle only.
Methods(h) == IF h = "heap" THEN {"state", "start", "stop", "dump"}
              ELSE {"state", "start", "stop"}

\* Arguments, as the bytes the caller passes (T: Into<Vec<u8>>):
\*   "a"         nul-free UTF-8 text naming a file the process can create
\*   "a\0b"      text with an interior nul byte
\*   "xa"        nul-free UTF-8 text under a directory that does not exist
\*   0xFF        a nul-free byte sequence that is not UTF-8
PathA == <<97>>
PathNul == <<97, 0, 98>>
PathNoDir == <<120, 97>>
PathNonUtf8 == <<255>>

Paths == {PathA, PathNul, PathNoDir, PathNonUtf8}

NoPath == <<>>

\* The file names (Strings) at which File::create succeeds.
Creatable == {PathA}

\* Status codes ProfilerStart can return (i32): 0 is failure.
NativeResults == {0 - 1, 0, 1}

\* Layouts the process asks the global allocator for (align, size).
Layouts == {[align |-> 8, size |-> 1], [align |-> 16, size |-> 8]}

\* Addresses of the native allocator; NullPtr is its failure value.
Ptrs == 1..MaxPtrs

NullPtr == 0

NoAlloc == [kind |-> "none", align |-> 0, size |-> 0, ptr |-> NullPtr,
            fn |-> "none", a |-> 0, b |-> 0, hstate |-> "NotActive"]

\* The error taxonomy (error::ErrorKind and its foreign links).
InvalidState(s) == IF s = "Active" THEN "InvalidState(Active)"
                   ELSE "InvalidState(NotActive)"

ErrorKinds == {"InvalidState(Active)", "InvalidState(NotActive)", "NulError",
               "Io", "InternalError"}

\* ------------------------------------------------------------------------
\* State
\* ------------------------------------------------------------------------

VARIABLES
  state,            \* state[h]: the ProfilerState field of handle h
  lockHolder,       \* lockHolder[h]: the thread holding the Mutex of h
  poisoned,         \* poisoned[h]: a thread panicked while holding the Mutex
  nativeRunning,    \* nativeRunning[h]: the native sampler of h is running
  files,            \* the files created (or truncated) so far
  accepted,         \* accepted[h]: the last native start of h was accepted
                    \* by the wrapper (cpu: returned nonzero; heap: was
                    \* called) and no native stop of h has followed it
  pc,               \* pc[t]: where thread t is in its call
  op,               \* op[t]: the call of thread t: handle, method, argument
  entry,            \* entry[t]: state of the handle when t got its lock
  result,           \* result[t]: what the call of t returned
  lastRes,          \* lastRes[t]: status ProfilerStart returned to t
  nStart,           \* native start calls made by the call of t
  nStop,            \* native stop calls made by the call of t
  nDump,            \* native dump calls made by the call of t
  nCreate,          \* File::create successes of the call of t
  raced,            \* raced[t]: the start of t overlaps a start of another
                    \* thread on the same handle, which was NotActive when
                    \* the later of the two was issued
  blocks,           \* the blocks the native allocator has handed out
  lastAlloc         \* the last call of the global allocator and the native
                    \* call it made

vars == <<state, lockHolder, poisoned, nativeRunning, files, accepted, pc, op, entry,
          result, lastRes, nStart, nStop, nDump, nCreate, raced, blocks,
          lastAlloc>>

handleVars == <<state, lockHolder, poisoned, nativeRunning, files, accepted>>

callVars == <<op, entry, raced>>

countVars == <<lastRes, nStart, nStop, nDump, nCreate>>

allocVars == <<blocks, lastAlloc>>

H(t) == op[t].h

InFlight(t) == pc[t] \notin {"idle", "done"}

\* thread t issues a start on h while the start of u on h is in flight
\* and h is NotActive
Racing(t, u, h, m) ==
  /\ u # t
  /\ m = "start"
  /\ InFlight(u)
  /\ op[u].m = "start"
  /\ op[u].h = h
  /\ state[h] = "NotActive"

\* ------------------------------------------------------------------------
\* Pure steps of the methods
\* ------------------------------------------------------------------------

\* CString::new(bytes): fails with NulError iff a byte is 0
CStringNewOk_NoCheck(p) == TRUE

CStringNewOk(p) == \A i \in 1..Len(p) : p[i] # 0

\* CString::into_string(): Ok iff the bytes are UTF-8 (0xFF never is)
IntoStringOk(p) == \A i \in 1..Len(p) : p[i] < 128

\* File::create(path) inside check_file_path
FileCreateOk(p) == p \in Creatable

\* start: if self.state == ProfilerState::NotActive
StartGuard_Always(s) == TRUE

StartGuard(s) == s = "NotActive"

\* stop: if self.state == ProfilerState::Active
StopGuard_Always(s) == TRUE

StopGuard(s) == s = "Active"

\* dump does not look at the state
DumpGuard_ActiveOnly(s) == s = "Active"

DumpGuard(s) == TRUE

\* Profiler::start: if res == 0 { Err(InternalError) } else { Active; Ok }
ResIsFailure_NonPositive(res) == res <= 0

ResIsFailure(res) == res = 0

\* Mutex::lock(): the lock is granted only when no thread holds it
LockFree_Always(h) == TRUE

LockFree_Global(h) == \A g \in Handles : lockHolder[g] = NoThread

LockFree(h) == lockHolder[h] = NoThread

\* lazy_static: Mutex::new(Profiler { state: ProfilerState::NotActive })
InitialState_Active == "Active"

InitialState == "NotActive"

\* the state a successful stop stores
StoppedState_Active == "Active"

StoppedState == "NotActive"

\* the state a successful start stores
StartedState_NotActive == "NotActive"

StartedState == "Active"

\* the state check of the method t is in lets the call go on
Passes_Unchecked(t) == TRUE

Passes(t) ==
  CASE op[t].m = "start" -> StartGuard(state[H(t)])
    [] op[t].m = "stop" -> StopGuard(state[H(t)])
    [] op[t].m = "dump" -> DumpGuard(state[H(t)])
    [] OTHER -> TRUE

\* ------------------------------------------------------------------------
\* Init
\* ------------------------------------------------------------------------

Init ==
  /\ state = [h \in Handles |-> InitialState]
  /\ lockHolder = [h \in Handles |-> NoThread]
  /\ poisoned = [h \in Handles |-> FALSE]
  /\ nativeRunning = [h \in Handles |-> FALSE]
  /\ files = {}
  /\ accepted = [h \in Handles |-> FALSE]
  /\ pc = [t \in Threads |-> "idle"]
  /\ op = [t \in Threads |-> [h |-> "cpu", m |-> "state", path |-> NoPath]]
  /\ entry = [t \in Threads |-> "NotActive"]
  /\ result = [t \in Threads |-> "none"]
  /\ lastRes = [t \in Threads |-> 0]
  /\ nStart = [t \in Threads |-> 0]
  /\ nStop = [t \in Threads |-> 0]
  /\ nDump = [t \in Threads |-> 0]
  /\ nCreate = [t \in Threads |-> 0]
  /\ raced = [t \in Threads |-> FALSE]
  /\ blocks = {}
  /\ lastAlloc = NoAlloc

\* ------------------------------------------------------------------------
\* Actions
\* ------------------------------------------------------------------------

\* a thread issues HANDLE.lock().unwrap().m(path), m one of ms
CallOf(t, ms) ==
  /\ pc[t] \in {"idle", "done"}
  /\ \E h \in Handles : \E m \in Methods(h) \cap ms :
       \E p \in (IF m \in {"start", "dump"} THEN Paths ELSE {NoPath}) :
         /\ op' = [op EXCEPT ![t] = [h |-> h, m |-> m, path |-> p]]
         /\ raced' = [x \in Threads |->
              IF x = t THEN \E u \in Threads : Racing(t, u, h, m)
              ELSE raced[x] \/ Racing(t, x, h, m)]
  /\ pc' = [pc EXCEPT ![t] = "waiting"]
  /\ result' = [result EXCEPT ![t] = "none"]
  /\ nStart' = [nStart EXCEPT ![t] = 0]
  /\ nStop' = [nStop EXCEPT ![t] = 0]
  /\ nDump' = [nDump EXCEPT ![t] = 0]
  /\ nCreate' = [nCreate EXCEPT ![t] = 0]
  /\ UNCHANGED <<handleVars, entry, lastRes>>
  /\ UNCHANGED allocVars

\* a thread issues any call
Call(t) == CallOf(t, {"state", "start", "stop", "dump"})

\* lock() returns Ok(guard): the method body is entered
Acquire(t) ==
  /\ pc[t] = "waiting"
  /\ LockFree(H(t))
  /\ ~poisoned[H(t)]
  /\ lockHolder' = [lockHolder EXCEPT ![H(t)] = t]
  /\ entry' = [entry EXCEPT ![t] = state[H(t)]]
  /\ pc' = [pc EXCEPT ![t] = "entered"]
  /\ UNCHANGED <<accepted, state, poisoned, nativeRunning, files, op, raced, result,
                 countVars>>
  /\ UNCHANGED allocVars

\* lock() returns Err(PoisonError): unwrap() panics, the guard is dropped
AcquirePoisoned(t) ==
  /\ pc[t] = "waiting"
  /\ LockFree(H(t))
  /\ poisoned[H(t)]
  /\ result' = [result EXCEPT ![t] = "PoisonError"]
  /\ pc' = [pc EXCEPT ![t] = "done"]
  /\ UNCHANGED <<handleVars, callVars, countVars>>
  /\ UNCHANGED allocVars

\* state(): self.state
StateRead(t) ==
  /\ pc[t] = "entered"
  /\ op[t].m = "state"
  /\ result' = [result EXCEPT ![t] = state[H(t)]]
  /\ pc' = [pc EXCEPT ![t] = "ret"]
  /\ UNCHANGED <<handleVars, callVars, countVars>>
  /\ UNCHANGED allocVars

\* start, stop: else { Err(ErrorKind::InvalidState(self.state).into()) }
InvalidStateReturn(t) ==
  /\ pc[t] = "entered"
  /\ ~Passes(t)
  /\ result' = [result EXCEPT ![t] = InvalidState(state[H(t)])]
  /\ pc' = [pc EXCEPT ![t] = "ret"]
  /\ UNCHANGED <<handleVars, callVars, countVars>>
  /\ UNCHANGED allocVars

\* start, dump: try!(CString::new(fname)) on bytes with an interior nul
NulErrorReturn(t) ==
  /\ pc[t] = "entered"
  /\ op[t].m \in {"start", "dump"}
  /\ Passes(t)
  /\ ~CStringNewOk(op[t].path)
  /\ result' = [result EXCEPT ![t] = "NulError"]
  /\ pc' = [pc EXCEPT ![t] = "ret"]
  /\ UNCHANGED <<handleVars, callVars, countVars>>
  /\ UNCHANGED allocVars

\* start, dump: c_fname.clone().into_string().unwrap() on bytes that are
\* not UTF-8: the thread panics while it holds the guard, which poisons the
\* Mutex as the guard is dropped
IntoStringPanic(t) ==
  /\ pc[t] = "entered"
  /\ op[t].m \in {"start", "dump"}
  /\ Passes(t)
  /\ CStringNewOk(op[t].path)
  /\ ~IntoStringOk(op[t].path)
  /\ result' = [result EXCEPT ![t] = "Panic"]
  /\ poisoned' = [poisoned EXCEPT ![H(t)] = TRUE]
  /\ lockHolder' = [lockHolder EXCEPT ![H(t)] =
       IF lockHolder[H(t)] = t THEN NoThread ELSE lockHolder[H(t)]]
  /\ pc' = [pc EXCEPT ![t] = "done"]
  /\ entry' = [entry EXCEPT ![t] = "NotActive"]
  /\ UNCHANGED <<accepted, state, nativeRunning, files, op, raced, countVars>>
  /\ UNCHANGED allocVars

\* check_file_path that opens nothing
CheckFilePath_NoCreate(t) ==
  /\ pc[t] = "entered"
  /\ op[t].m \in {"start", "dump"}
  /\ Passes(t)
  /\ CStringNewOk(op[t].path)
  /\ IntoStringOk(op[t].path)
  /\ IF FileCreateOk(op[t].path)
       THEN /\ pc' = [pc EXCEPT ![t] = "native"]
            /\ UNCHANGED <<files, nCreate, result>>
       ELSE /\ result' = [result EXCEPT ![t] = "Io"]
            /\ pc' = [pc EXCEPT ![t] = "ret"]
            /\ UNCHANGED <<files, nCreate>>
  /\ UNCHANGED <<accepted, state, lockHolder, poisoned, nativeRunning, callVars,
                 lastRes, nStart, nStop, nDump>>
  /\ UNCHANGED allocVars

\* check_file_path called before the state check
CheckFilePath_Unguarded(t) ==
  /\ pc[t] = "entered"
  /\ op[t].m \in {"start", "dump"}
  /\ CStringNewOk(op[t].path)
  /\ IntoStringOk(op[t].path)
  /\ IF FileCreateOk(op[t].path)
       THEN /\ files' = files \cup {op[t].path}
            /\ nCreate' = [nCreate EXCEPT ![t] = @ + 1]
            /\ pc' = [pc EXCEPT ![t] = "native"]
            /\ UNCHANGED result
       ELSE /\ result' = [result EXCEPT ![t] = "Io"]
            /\ pc' = [pc EXCEPT ![t] = "ret"]
            /\ UNCHANGED <<files, nCreate>>
  /\ UNCHANGED <<accepted, state, lockHolder, poisoned, nativeRunning, callVars,
                 lastRes, nStart, nStop, nDump>>
  /\ UNCHANGED allocVars

\* start, dump: check_file_path(path): File::create(path); an error
\* becomes Error::Io
CheckFilePath(t) ==
  /\ pc[t] = "entered"
  /\ op[t].m \in {"start", "dump"}
  /\ Passes(t)
  /\ CStringNewOk(op[t].path)
  /\ IntoStringOk(op[t].path)
  /\ IF FileCreateOk(op[t].path)
       THEN /\ files' = files \cup {op[t].path}
            /\ nCreate' = [nCreate EXCEPT ![t] = @ + 1]
            /\ pc' = [pc EXCEPT ![t] = "native"]
            /\ UNCHANGED result
       ELSE /\ result' = [result EXCEPT ![t] = "Io"]
            /\ pc' = [pc EXCEPT ![t] = "ret"]
            /\ UNCHANGED <<files, nCreate>>
  /\ UNCHANGED <<accepted, state, lockHolder, poisoned, nativeRunning, callVars,
                 lastRes, nStart, nStop, nDump>>
  /\ UNCHANGED allocVars

\* let res = ProfilerStart(c_fname.as_ptr()); if res == 0 { Err(..) }
\* The native library refuses (returns 0) when its sampler already runs.
NativeStartCpu(t) ==
  /\ pc[t] = "native"
  /\ op[t].m = "start"
  /\ H(t) = "cpu"
  /\ \E res \in (IF nativeRunning["cpu"] THEN {0} ELSE NativeResults) :
       /\ lastRes' = [lastRes EXCEPT ![t] = res]
       /\ nativeRunning' = [nativeRunning EXCEPT !["cpu"] = @ \/ res # 0]
       /\ accepted' = [accepted EXCEPT !["cpu"] = ~ResIsFailure(res)]
       /\ IF ResIsFailure(res)
            THEN /\ result' = [result EXCEPT ![t] = "InternalError"]
                 /\ pc' = [pc EXCEPT ![t] = "ret"]
            ELSE /\ pc' = [pc EXCEPT ![t] = "setactive"]
                 /\ UNCHANGED result
  /\ nStart' = [nStart EXCEPT ![t] = @ + 1]
  /\ UNCHANGED <<state, lockHolder, poisoned, files, callVars, nStop, nDump,
                 nCreate>>
  /\ UNCHANGED allocVars

\* HeapProfilerStart(c_fname.as_ptr()): returns nothing; whether the
\* sampler came up is not visible to the caller
NativeStartHeap(t) ==
  /\ pc[t] = "native"
  /\ op[t].m = "start"
  /\ H(t) = "heap"
  /\ \E up \in BOOLEAN :
       nativeRunning' = [nativeRunning EXCEPT !["heap"] = @ \/ up]
  /\ accepted' = [accepted EXCEPT !["heap"] = TRUE]
  /\ nStart' = [nStart EXCEPT ![t] = @ + 1]
  /\ pc' = [pc EXCEPT ![t] = "setactive"]
  /\ UNCHANGED <<state, lockHolder, poisoned, files, callVars, result,
                 lastRes, nStop, nDump, nCreate>>
  /\ UNCHANGED allocVars

\* self.state = ProfilerState::Active; Ok(())
SetActive(t) ==
  /\ pc[t] = "setactive"
  /\ state' = [state EXCEPT ![H(t)] = StartedState]
  /\ result' = [result EXCEPT ![t] = "Ok"]
  /\ pc' = [pc EXCEPT ![t] = "ret"]
  /\ UNCHANGED <<accepted, lockHolder, poisoned, nativeRunning, files, callVars,
                 countVars>>
  /\ UNCHANGED allocVars

\* stop: ProfilerStop() / HeapProfilerStop()
NativeStop(t) ==
  /\ pc[t] = "entered"
  /\ op[t].m = "stop"
  /\ Passes(t)
  /\ nativeRunning' = [nativeRunning EXCEPT ![H(t)] = FALSE]
  /\ accepted' = [accepted EXCEPT ![H(t)] = FALSE]
  /\ nStop' = [nStop EXCEPT ![t] = @ + 1]
  /\ pc' = [pc EXCEPT ![t] = "setnotactive"]
  /\ UNCHANGED <<state, lockHolder, poisoned, files, callVars, result,
                 lastRes, nStart, nDump, nCreate>>
  /\ UNCHANGED allocVars

\* self.state = ProfilerState::NotActive; Ok(())
SetNotActive(t) ==
  /\ pc[t] = "setnotactive"
  /\ state' = [state EXCEPT ![H(t)] = StoppedState]
  /\ result' = [result EXCEPT ![t] = "Ok"]
  /\ pc' = [pc EXCEPT ![t] = "ret"]
  /\ UNCHANGED <<accepted, lockHolder, poisoned, nativeRunning, files, callVars,
                 countVars>>
  /\ UNCHANGED allocVars

\* HeapProfilerDump(c_reason.as_ptr()); Ok(())
NativeDump(t) ==
  /\ pc[t] = "native"
  /\ op[t].m = "dump"
  /\ nDump' = [nDump EXCEPT ![t] = @ + 1]
  /\ result' = [result EXCEPT ![t] = "Ok"]
  /\ pc' = [pc EXCEPT ![t] = "ret"]
  /\ UNCHANGED <<handleVars, callVars, lastRes, nStart, nStop, nCreate>>
  /\ UNCHANGED allocVars

\* the method has returned: the MutexGuard temporary is dropped
Release(t) ==
  /\ pc[t] = "ret"
  /\ lockHolder' = [lockHolder EXCEPT ![H(t)] =
       IF lockHolder[H(t)] = t THEN NoThread ELSE lockHolder[H(t)]]
  /\ pc' = [pc EXCEPT ![t] = "done"]
  /\ entry' = [entry EXCEPT ![t] = "NotActive"]
  /\ lastRes' = [lastRes EXCEPT ![t] = 0]
  /\ UNCHANGED <<accepted, state, poisoned, nativeRunning, files, op, raced, result,
                 nStart, nStop, nDump, nCreate>>
  /\ UNCHANGED allocVars

Next ==
  \E t \in Threads :
    \/ Call(t)
    \/ Acquire(t)
    \/ AcquirePoisoned(t)
    \/ StateRead(t)
    \/ InvalidStateReturn(t)
    \/ NulErrorReturn(t)
    \/ IntoStringPanic(t)
    \/ CheckFilePath(t)
    \/ NativeStartCpu(t)
    \/ NativeStartHeap(t)
    \/ SetActive(t)
    \/ NativeStop(t)
    \/ SetNotActive(t)
    \/ NativeDump(t)
    \/ Release(t)

Spec == Init /\ [][Next]_vars

\* what thread t can do once its call is issued
ThreadStep(t) ==
  \/ Acquire(t)
  \/ AcquirePoisoned(t)
  \/ StateRead(t)
  \/ InvalidStateReturn(t)
  \/ NulErrorReturn(t)
  \/ IntoStringPanic(t)
  \/ CheckFilePath(t)
  \/ NativeStartCpu(t)
  \/ NativeStartHeap(t)
  \/ SetActive(t)
  \/ NativeStop(t)
  \/ SetNotActive(t)
  \/ NativeDump(t)
  \/ Release(t)

\* TCMalloc::alloc: tc_memalign(layout.align(), layout.size())
MemalignArgs_Swapped(l) == <<l.size, l.align>>

MemalignArgs(l) == <<l.align, l.size>>

\* GlobalAlloc::alloc on the global allocator; the native allocator returns
\* an address it has not handed out, or null
Alloc(l) ==
  /\ \E p \in (Ptrs \ {x.ptr : x \in blocks}) \cup {NullPtr} :
       /\ blocks' = IF p = NullPtr THEN blocks
                    ELSE blocks \cup {[ptr |-> p, align |-> MemalignArgs(l)[1],
                                       size |-> MemalignArgs(l)[2]]}
       /\ lastAlloc' = [kind |-> "alloc", align |-> l.align, size |-> l.size,
                        ptr |-> p, fn |-> "tc_memalign",
                        a |-> MemalignArgs(l)[1], b |-> MemalignArgs(l)[2],
                        hstate |-> state["heap"]]
  /\ UNCHANGED <<handleVars, pc, callVars, result, countVars>>

\* GlobalAlloc::dealloc of a block: tc_free(ptr); the layout is not passed
Dealloc(x) ==
  /\ x \in blocks
  /\ blocks' = blocks \ {x}
  /\ lastAlloc' = [kind |-> "dealloc", align |-> x.align, size |-> x.size,
                   ptr |-> x.ptr, fn |-> "tc_free", a |-> x.ptr, b |-> 0,
                   hstate |-> state["heap"]]
  /\ UNCHANGED <<handleVars, pc, callVars, result, countVars>>

\* one thread using the handles in a process whose global allocator is
\* TCMalloc (feature "heap")
NextAlloc ==
  \/ Call("t1")
  \/ ThreadStep("t1")
  \/ \E l \in Layouts : Alloc(l)
  \/ \E x \in blocks : Dealloc(x)

SpecAlloc == Init /\ [][NextAlloc]_vars

\* Scheduling: a thread that can take a step of its call takes it, and a
\* thread that finds the lock free again and again gets it
Fairness ==
  \A t \in Threads :
    /\ WF_vars(ThreadStep(t))
    /\ SF_vars(Acquire(t) \/ AcquirePoisoned(t))

FairSpec == Spec /\ Fairness

\* the process before any start or stop is called: state and dump only
NextFresh ==
  \E t \in Threads :
    \/ CallOf(t, {"state", "dump"})
    \/ Acquire(t)
    \/ AcquirePoisoned(t)
    \/ StateRead(t)
    \/ NulErrorReturn(t)
    \/ IntoStringPanic(t)
    \/ CheckFilePath(t)
    \/ NativeDump(t)
    \/ Release(t)

SpecFresh == Init /\ [][NextFresh]_vars

TypeOK ==
  /\ state \in [Handles -> ProfilerStates]
  /\ lockHolder \in [Handles -> Threads \cup {NoThread}]
  /\ poisoned \in [Handles -> BOOLEAN]
  /\ nativeRunning \in [Handles -> BOOLEAN]
  /\ files \subseteq Creatable
  /\ accepted \in [Handles -> BOOLEAN]
  /\ \A t \in Threads :
       result[t] \in ErrorKinds \cup {"none", "Ok", "Panic", "PoisonError"}
                     \cup ProfilerStates

\* ------------------------------------------------------------------------
\* Properties
\* ------------------------------------------------------------------------

\* the method of t has returned and t still holds the guard
Returned(t) == pc[t] = "ret"

\* t is inside the method m of handle h
Inside(t, h, m) ==
  /\ pc[t] \in {"entered", "native", "setactive", "setnotactive", "ret"}
  /\ op[t].h = h
  /\ op[t].m = m

\* C1: on both handles and for every path argument, start called while the
\* handle is Active returns InvalidState(Active), leaves the state Active,
\* makes no native start call and creates no file.
C1_StartWhileActive ==
  \A t \in Threads : \A h \in Handles :
    (Inside(t, h, "start") /\ entry[t] = "Active") =>
      /\ pc[t] \in {"entered", "ret"}
      /\ state[h] = "Active"
      /\ nStart[t] = 0
      /\ nCreate[t] = 0
      /\ Returned(t) => result[t] = "InvalidState(Active)"

C1_Witness ==
  \E t \in Threads :
    /\ Returned(t)
    /\ op[t].m = "start"
    /\ op[t].path = PathA
    /\ entry[t] = "Active"
    /\ result[t] = "InvalidState(Active)"

\* C2: on both handles, stop called while the handle is NotActive returns
\* InvalidState(NotActive), leaves the state NotActive and makes no native
\* stop call, initially and after any earlier operations.
C2_StopWhileNotActive ==
  \A t \in Threads : \A h \in Handles :
    (Inside(t, h, "stop") /\ entry[t] = "NotActive") =>
      /\ pc[t] \in {"entered", "ret"}
      /\ state[h] = "NotActive"
      /\ nStop[t] = 0
      /\ Returned(t) => result[t] = "InvalidState(NotActive)"

C2_Witness ==
  \E t \in Threads : \E u \in Threads \ {t} :
    /\ Returned(t)
    /\ op[t].m = "stop"
    /\ entry[t] = "NotActive"
    /\ result[t] = "InvalidState(NotActive)"
    /\ pc[u] = "done"
    /\ op[u] = [h |-> H(t), m |-> "stop", path |-> NoPath]
    /\ result[u] = "Ok"

\* two start calls with the valid path on handle h that overlapped while h
\* was NotActive, both complete (each thread got the guard, so that start
\* was called)
RacedStarts(t, u, h) ==
  /\ t # u
  /\ result[t] # "PoisonError"
  /\ result[u] # "PoisonError"
  /\ raced[t]
  /\ raced[u]
  /\ pc[t] = "done"
  /\ pc[u] = "done"
  /\ op[t] = [h |-> h, m |-> "start", path |-> PathA]
  /\ op[u] = [h |-> h, m |-> "start", path |-> PathA]

OneWinner(t, u, h) ==
  /\ {result[t], result[u]} = {"Ok", "InvalidState(Active)"}
  /\ state[h] = "Active"
  /\ nStart[t] + nStart[u] = 1

C4_StateMirrorsNative ==
  \A h \in Handles :
    lockHolder[h] = NoThread => (state[h] = "Active" <=> nativeRunning[h])

\* C5: CPU start on a NotActive handle with a nul-free writable path calls
\* ProfilerStart exactly once; status 0 gives InternalError and the state
\* stays NotActive; any nonzero status gives Ok and the state Active.
C5_CpuStartStatus ==
  \A t \in Threads :
    (/\ Returned(t)
     /\ op[t] = [h |-> "cpu", m |-> "start", path |-> PathA]
     /\ entry[t] = "NotActive") =>
      /\ nStart[t] = 1
      /\ lastRes[t] = 0 => (result[t] = "InternalError" /\ state["cpu"] = "NotActive")
      /\ lastRes[t] # 0 => (result[t] = "Ok" /\ state["cpu"] = "Active")

C5_Witness ==
  \E t \in Threads :
    /\ Returned(t)
    /\ op[t] = [h |-> "cpu", m |-> "start", path |-> PathA]
    /\ entry[t] = "NotActive"
    /\ nStart[t] = 1
    /\ lastRes[t] < 0
    /\ result[t] = "Ok"

\* C6: on both handles, start on a NotActive handle returns NulError for a
\* path with an interior nul and Io for a nul-free path whose file cannot
\* be created; the state stays NotActive and no native start call is made.
C6_StartBadPath ==
  \A t \in Threads : \A h \in Handles :
    (/\ Inside(t, h, "start")
     /\ entry[t] = "NotActive"
     /\ op[t].path \in {PathNul, PathNoDir}) =>
      /\ pc[t] \in {"entered", "ret"}
      /\ state[h] = "NotActive"
      /\ nStart[t] = 0
      /\ Returned(t) =>
           result[t] = (IF op[t].path = PathNul THEN "NulError" ELSE "Io")

C6_Witness ==
  \E t \in Threads : \E u \in Threads :
    /\ Returned(t)
    /\ op[t] = [h |-> "cpu", m |-> "start", path |-> PathNul]
    /\ result[t] = "NulError"
    /\ Returned(u)
    /\ op[u] = [h |-> "heap", m |-> "start", path |-> PathNoDir]
    /\ result[u] = "Io"

\* C7: when the native heap sampler fails to start, the heap start returns
\* an error and the state of the heap handle stays NotActive.
C7_HeapStartNativeFailure ==
  \A t \in Threads :
    (/\ Returned(t)
     /\ op[t].h = "heap"
     /\ op[t].m = "start"
     /\ nStart[t] = 1
     /\ ~nativeRunning["heap"]) =>
      /\ result[t] \in ErrorKinds
      /\ state["heap"] = "NotActive"

\* C8: start and dump called with nul-free bytes that are not UTF-8 return
\* an error of the taxonomy, do not panic, and leave the lock of the handle
\* usable.
C8_NonUtf8IsAnError ==
  \A t \in Threads :
    (/\ pc[t] = "done"
     /\ op[t].m \in {"start", "dump"}
     /\ op[t].path = PathNonUtf8) =>
      /\ result[t] \in ErrorKinds
      /\ ~poisoned[H(t)]

\* C9: heap dump with a nul-free writable reason returns Ok in both states
\* of the handle, calls HeapProfilerDump exactly once and leaves the state
\* as it was; a dump that fails with NulError or Io leaves the state as it
\* was and makes no native call.
C9_Dump ==
  \A t \in Threads :
    (Inside(t, "heap", "dump") /\ op[t].path \in {PathA, PathNul, PathNoDir}) =>
      /\ state["heap"] = entry[t]
      /\ nStart[t] = 0
      /\ nStop[t] = 0
      /\ Returned(t) =>
           /\ op[t].path = PathA => (result[t] = "Ok" /\ nDump[t] = 1)
           /\ op[t].path = PathNul => (result[t] = "NulError" /\ nDump[t] = 0)
           /\ op[t].path = PathNoDir => (result[t] = "Io" /\ nDump[t] = 0)

C9_Witness ==
  \E t \in Threads :
    /\ Returned(t)
    /\ op[t] = [h |-> "heap", m |-> "dump", path |-> PathA]
    /\ entry[t] = "NotActive"
    /\ ~nativeRunning["heap"]
    /\ result[t] = "Ok"
    /\ nDump[t] = 1

\* C10: on both handles every start -> stop cycle with the same nul-free
\* writable path succeeds when the native start reports success: such a
\* start returns Ok with the state Active, and a stop called while Active
\* returns Ok, calls the native stop exactly once and leaves NotActive.
C10_Cycles ==
  \A t \in Threads : \A h \in Handles :
    /\ (/\ Returned(t)
        /\ op[t] = [h |-> h, m |-> "start", path |-> PathA]
        /\ entry[t] = "NotActive"
        /\ ~(h = "cpu" /\ nStart[t] = 1 /\ lastRes[t] = 0)) =>
         (result[t] = "Ok" /\ state[h] = "Active")
    /\ (/\ Returned(t)
        /\ op[t] = [h |-> h, m |-> "stop", path |-> NoPath]
        /\ entry[t] = "Active") =>
         (result[t] = "Ok" /\ nStop[t] = 1 /\ state[h] = "NotActive")

\* two stops of one handle have succeeded: one complete, one returning
C10_Witness ==
  \E t \in Threads : \E u \in Threads \ {t} : \E h \in Handles :
    /\ pc[u] = "done"
    /\ op[u] = [h |-> h, m |-> "stop", path |-> NoPath]
    /\ result[u] = "Ok"
    /\ Returned(t)
    /\ op[t] = [h |-> h, m |-> "stop", path |-> NoPath]
    /\ entry[t] = "Active"
    /\ result[t] = "Ok"

\* t is inside a method of handle h
InsideAny(t, h) == \E m \in Methods(h) : Inside(t, h, m)

\* C11: every method runs under the lock of its handle: at most one thread
\* is inside a method of a handle, that thread holds the lock, and from its
\* entry to its own update of the state no other thread changes the state.
C11_UnderLock ==
  \A t \in Threads : \A h \in Handles :
    InsideAny(t, h) =>
      /\ lockHolder[h] = t
      /\ \A u \in Threads \ {t} : ~InsideAny(u, h)
      /\ pc[t] \in {"entered", "native", "setactive", "setnotactive"} =>
           state[h] = entry[t]

C11_Witness ==
  \E t \in Threads : \E u \in Threads \ {t} :
    /\ pc[t] = "setactive"
    /\ pc[u] = "waiting"
    /\ H(u) = H(t)
    /\ op[u].m = "stop"

\* C12: the two handles have independent locks: a thread whose call is in
\* flight can always take its next step unless it waits for the lock of its
\* own handle, whoever holds the lock of the other handle.
C12_IndependentLocks ==
  \A u \in Threads :
    (InFlight(u) /\ (pc[u] = "waiting" => lockHolder[H(u)] = NoThread)) =>
      ENABLED ThreadStep(u)

C12_Witness ==
  \E t \in Threads : \E u \in Threads \ {t} :
    /\ pc[t] = "native"
    /\ H(t) = "cpu"
    /\ lockHolder["cpu"] = t
    /\ pc[u] = "ret"
    /\ H(u) = "heap"
    /\ op[u].m = "start"
    /\ result[u] = "Ok"

\* C13: while no start and no stop has been called, state() returns
\* NotActive on both handles, whichever thread reads first.
C13_InitiallyNotActive ==
  /\ \A h \in Handles : state[h] = "NotActive"
  /\ \A t \in Threads :
       (Returned(t) /\ op[t].m = "state") => result[t] = "NotActive"

C13_Witness ==
  \E t \in Threads : \E u \in Threads \ {t} :
    /\ Returned(t)
    /\ op[t] = [h |-> "heap", m |-> "state", path |-> NoPath]
    /\ result[t] = "NotActive"
    /\ pc[u] = "waiting"
    /\ op[u] = [h |-> "heap", m |-> "state", path |-> NoPath]
    /\ result[u] = "none"

\* C15: the state of a handle changes only from NotActive to Active by a
\* start that returns Ok and from Active to NotActive by a stop that returns
\* Ok; a call that returns an error, a state() and a dump leave it as it was.
C15_Frame ==
  \A t \in Threads : \A h \in Handles : \A m \in Methods(h) :
    (Inside(t, h, m) /\ Returned(t)) =>
      /\ (result[t] \in ErrorKinds \/ m \in {"state", "dump"}) =>
           state[h] = entry[t]
      /\ (m = "start" /\ result[t] = "Ok") =>
           (entry[t] = "NotActive" /\ state[h] = "Active")
      /\ (m = "stop" /\ result[t] = "Ok") =>
           (entry[t] = "Active" /\ state[h] = "NotActive")

C15_Step ==
  \A h \in Handles :
    state'[h] # state[h] =>
      \E t \in Threads :
        /\ lockHolder[h] = t
        /\ H(t) = h
        /\ result'[t] = "Ok"
        /\ \/ op[t].m = "start" /\ state[h] = "NotActive" /\ state'[h] = "Active"
           \/ op[t].m = "stop" /\ state[h] = "Active" /\ state'[h] = "NotActive"

C15_OnlyStartAndStop == []C15_Frame /\ [][C15_Step]_vars

C15_Witness ==
  \E t \in Threads : \E u \in Threads \ {t} :
    /\ Returned(t)
    /\ op[t].m = "stop"
    /\ result[t] = "Ok"
    /\ state[H(t)] = "NotActive"
    /\ pc[u] = "done"
    /\ op[u] = [h |-> H(t), m |-> "dump", path |-> PathNoDir]
    /\ result[u] = "Io"

\* C16: a CPU start on a NotActive handle with a nul-free writable path
\* creates the file once, before ProfilerStart is called; when ProfilerStart
\* then returns 0 the file is still there and the state is NotActive.
C16_FileBeforeNative ==
  \A t \in Threads :
    (/\ Inside(t, "cpu", "start")
     /\ op[t].path = PathA
     /\ entry[t] = "NotActive") =>
      /\ pc[t] = "entered" => (nCreate[t] = 0 /\ nStart[t] = 0)
      /\ pc[t] = "native" =>
           (nCreate[t] = 1 /\ nStart[t] = 0 /\ PathA \in files)
      /\ pc[t] \in {"setactive", "ret"} =>
           (nCreate[t] = 1 /\ nStart[t] = 1 /\ PathA \in files)
      /\ (Returned(t) /\ lastRes[t] = 0) =>
           (result[t] = "InternalError" /\ state["cpu"] = "NotActive")

C16_Witness ==
  \E t \in Threads :
    /\ Returned(t)
    /\ op[t] = [h |-> "cpu", m |-> "start", path |-> PathA]
    /\ nStart[t] = 1
    /\ lastRes[t] = 0
    /\ result[t] = "InternalError"
    /\ nCreate[t] = 1
    /\ PathA \in files
    /\ state["cpu"] = "NotActive"

\* C17: the native calls of a profiler are paired: the native stop is called
\* only while the last native start is accepted and unstopped, and the
\* native start is never called while an accepted start is unstopped.
C17_Step ==
  \A t \in Threads :
    /\ nStop'[t] = nStop[t] + 1 => accepted[H(t)]
    /\ nStart'[t] = nStart[t] + 1 => ~accepted[H(t)]

C17_NativeCallsPaired == [][C17_Step]_vars

C17_Witness ==
  \E t \in Threads : \E u \in Threads \ {t} :
    /\ pc[t] = "setnotactive"
    /\ H(t) = "cpu"
    /\ nStop[t] = 1
    /\ ~accepted["cpu"]
    /\ pc[u] = "done"
    /\ op[u] = [h |-> "cpu", m |-> "start", path |-> PathA]
    /\ result[u] = "InternalError"

HasNul(p) == \E i \in 1..Len(p) : p[i] = 0

\* C18: a file is created only by a start entered while NotActive with a
\* nul-free path or by a dump with a nul-free reason, once per call; a call
\* that returns InvalidState or NulError has created no file.
C18_Inv ==
  \A t \in Threads :
    /\ nCreate[t] > 0 =>
         /\ nCreate[t] = 1
         /\ ~HasNul(op[t].path)
         /\ \/ op[t].m = "start" /\ (InFlight(t) => entry[t] = "NotActive")
            \/ op[t].m = "dump"
    /\ result[t] \in {"InvalidState(Active)", "InvalidState(NotActive)",
                      "NulError"} => nCreate[t] = 0

C18_Step ==
  files' # files => \E t \in Threads : nCreate'[t] = nCreate[t] + 1

C18_FileCreationOrder == []C18_Inv /\ [][C18_Step]_vars

C18_Witness ==
  \E t \in Threads : \E u \in Threads \ {t} :
    /\ Returned(t)
    /\ op[t] = [h |-> "heap", m |-> "dump", path |-> PathNul]
    /\ result[t] = "NulError"
    /\ nCreate[t] = 0
    /\ files = {}
    /\ pc[u] = "waiting"

\* C14: with TCMalloc as the global allocator every allocation is served
\* by tc_memalign with the alignment and size of the request and returns
\* what tc_memalign returned, and every deallocation passes the address to
\* tc_free: before any heap start, while the heap handle is Active and
\* after a stop.
C14_AllocatorShim ==
  /\ lastAlloc.kind = "alloc" =>
       /\ lastAlloc.fn = "tc_memalign"
       /\ lastAlloc.a = lastAlloc.align
       /\ lastAlloc.b = lastAlloc.size
  /\ lastAlloc.kind = "dealloc" =>
       /\ lastAlloc.fn = "tc_free"
       /\ lastAlloc.a = lastAlloc.ptr
       /\ \A x \in blocks : x.ptr # lastAlloc.ptr
  /\ \A x \in blocks : [align |-> x.align, size |-> x.size] \in Layouts

C14_Witness ==
  /\ lastAlloc.kind = "alloc"
  /\ lastAlloc.hstate = "Active"
  /\ lastAlloc.align = 16
  /\ lastAlloc.size = 8
  /\ lastAlloc.ptr # NullPtr
  /\ state["heap"] = "NotActive"
  /\ Cardinality(blocks) = 2

\* the call of t has returned to its caller, with success or with an error
Completed(t) == pc[t] = "done" /\ result[t] \notin {"Panic", "PoisonError"}

\* a call that is over holds no lock, and a lock holder can take a step
C19_Safety ==
  \A t \in Threads : \A h \in Handles :
    /\ pc[t] = "done" => lockHolder[h] # t
    /\ lockHolder[h] = t => (InsideAny(t, h) /\ ENABLED ThreadStep(t))

\* C19: every call that returns has released the lock of its handle, no
\* deadlock is reachable, and under fair scheduling every thread that waits
\* for the lock of a handle gets it and completes its operation.
C19_LockReleasedAndLive ==
  /\ []C19_Safety
  /\ \A t \in Threads : (pc[t] = "waiting") ~> Completed(t)

====
